---- MODULE Spec2Model ----
(***************************************************************************)
(* Model of the multi-agent request pipeline: the endpoint process_query,  *)
(* the LangGraph stage graph built by GraphBuilder, BaseAgent.execute and  *)
(* the four stages.  One request is followed from its arrival to its       *)
(* response; every awaited model or search call is one step, which either  *)
(* returns a value or raises.                                              *)
(*                                                                         *)
(* Numbers: a score s in [0,1] is the integer 1000*s (ScoreUnit), a        *)
(* weighted score or confidence c is the integer 10000*c (ConfUnit), so    *)
(* that 0.3*f + 0.4*i + 0.3*(1-r) is 3*f + 4*i + 3*(1000 - r) exactly.     *)
(* An optional value is a sequence: <<>> for None / absent key, <<v>> for  *)
(* a present value v.                                                      *)
(***************************************************************************)
EXTENDS Integers, Sequences, FiniteSets, TLC

\* ---------------------------------------------------------------- bounds

\* The largest number of blank-line separated chunks the option-generation
\* response holds.
MaxChunks == 2

\* ------------------------------------------------------------- constants

ScoreUnit == 1000
ConfUnit == 10000
\* option_texts[:3]
MaxOptions == 3
\* decision_criteria["confidence_threshold"] = 0.7
ConfidenceThreshold == 7000
\* state["confidence_scores"]["data_processing"] = 0.85
DataProcessingConfidence == 8500
\* state["confidence_scores"]["communication"] = 0.9
CommunicationConfidence == 9000
\* overall_confidence ... else 0.5
DefaultConfidence == 5000
\* len(text.split()) > 5
TextWordLimit == 5
\* insights[:5]
MaxInsights == 5
\* scores[key] = 0.5  # Default middle score
DefaultScore == 500

None == <<>>
Some(v) == <<v>>

\* ------------------------------------------------------------ task types

DATA_PROCESSING == "data_processing"
DECISION_MAKING == "decision_making"
COMMUNICATION == "communication"
GENERAL == "general"
TaskType == {DATA_PROCESSING, DECISION_MAKING, COMMUNICATION, GENERAL}

\* --------------------------------------------------------------- queries

\* A query is a sequence of lower-case words; the substring tests of the
\* code (keyword in query_lower, "decision" in query.lower(), indicator in
\* query.lower()) are tests on the words, each word holding the needles
\* listed here.
NeedlesOf(word) ==
    CASE word = "processing" -> {"process"}
      [] word = "decisions" -> {"decision"}
      [] word = "candidates" -> {"and"}
      [] OTHER -> {word}

Contains(query, needle) ==
    \E i \in 1..Len(query) : needle \in NeedlesOf(query[i])

HasDigit(word) == word \in {"7", "2024"}

Queries ==
    { <<"hello">>,
      <<"analyze", "and", "decide">>,
      <<"decide", "analyze">>,
      <<"explain", "the", "decision">>,
      <<"summarize", "the", "decision", "for", "7", "teams">>,
      <<"choose", "7">>,
      <<"processing", "candidates">>,
      <<"what", "decisions">> }

\* OrchestratorAgent.routing_rules["keywords"], in declaration order.
Keywords ==
    << [keyword |-> "analyze", task_type |-> DATA_PROCESSING],
       [keyword |-> "decide", task_type |-> DECISION_MAKING],
       [keyword |-> "calculate", task_type |-> DATA_PROCESSING],
       [keyword |-> "choose", task_type |-> DECISION_MAKING],
       [keyword |-> "communicate", task_type |-> COMMUNICATION],
       [keyword |-> "explain", task_type |-> COMMUNICATION],
       [keyword |-> "process", task_type |-> DATA_PROCESSING] >>

\* The keyword that comes first in the query, whatever its place in the
\* mapping.
FirstKeyword_Mut(query) ==
    LET hits == {k \in 1..Len(Keywords) : Contains(query, Keywords[k].keyword)}
        at(k) == CHOOSE i \in 1..Len(query) :
                     /\ Keywords[k].keyword \in NeedlesOf(query[i])
                     /\ \A j \in 1..(i - 1) :
                            Keywords[k].keyword \notin NeedlesOf(query[j])
    IN  IF hits = {} THEN 0
        ELSE CHOOSE k \in hits :
                 \A j \in hits : at(k) < at(j) \/ (at(k) = at(j) /\ k <= j)

\* The for loop of _determine_task_type: the index of the first keyword, in
\* declaration order, that the query contains; 0 when none does.
FirstKeyword(query) ==
    LET hits == {k \in 1..Len(Keywords) : Contains(query, Keywords[k].keyword)}
    IN  IF hits = {} THEN 0
        ELSE CHOOSE k \in hits : \A j \in hits : k <= j

\* response.content.strip().lower() of the classification answer.
StripLower(text) ==
    CASE text = " Decision_Making\n" -> "decision_making"
      [] text = " Executive\n" -> "executive"
      [] OTHER -> text

ClassifyAnswers ==
    {"data_processing", " Decision_Making\n", "communication", "general", "unsure"}

\* TaskType(task_type_str), with ValueError giving DATA_PROCESSING.
ParseTaskType(text) ==
    IF StripLower(text) \in TaskType THEN StripLower(text) ELSE DATA_PROCESSING

NeedsParallelProcessing(query) ==
    \E w \in {"and", "also", "additionally", "multiple", "various"} :
        Contains(query, w)

PrimaryPath_Mut(task_type) ==
    IF task_type = DATA_PROCESSING THEN <<"data_processor", "communicator">>
    ELSE IF task_type = COMMUNICATION THEN <<"communicator">>
    ELSE IF task_type = DECISION_MAKING
        THEN <<"data_processor", "decision_maker", "communicator">>
    ELSE <<"data_processor", "communicator">>

\* The static table of _determine_routing.
PrimaryPath(task_type) ==
    IF task_type = DATA_PROCESSING THEN <<"data_processor", "communicator">>
    ELSE IF task_type = DECISION_MAKING
        THEN <<"data_processor", "decision_maker", "communicator">>
    ELSE IF task_type = COMMUNICATION THEN <<"communicator">>
    ELSE <<"data_processor", "decision_maker", "communicator">>

DetermineRouting(query, task_type) ==
    [ primary_path |-> PrimaryPath(task_type),
      parallel_processing |-> NeedsParallelProcessing(query),
      parallel_agents |->
          IF NeedsParallelProcessing(query)
          THEN Some(<<"data_processor", "web_searcher">>) ELSE None ]

\* A routing_decision the caller may put into the request's metadata.
CallerRouting ==
    [ primary_path |-> <<"decision_maker">>,
      parallel_processing |-> FALSE,
      parallel_agents |-> None ]

\* ---------------------------------------------------------------- stages

AgentNames == {"Orchestrator", "DataProcessor", "DecisionMaker", "Communicator"}

\* graph.add_node(<node>, <agent>.execute)
AgentOfNode(node) ==
    CASE node = "orchestrator" -> "Orchestrator"
      [] node = "data_processor" -> "DataProcessor"
      [] node = "decision_maker" -> "DecisionMaker"
      [] node = "communicator" -> "Communicator"

NodeOfAgent(name) ==
    CASE name = "Orchestrator" -> "orchestrator"
      [] name = "DataProcessor" -> "data_processor"
      [] name = "DecisionMaker" -> "decision_maker"
      [] name = "Communicator" -> "communicator"

ScoreKeys == {"data_processing", "decision_making", "communication"}

\* The weights 0.3, 0.4, 0.3 of _calculate_overall_confidence, in tenths.
ConfidenceWeight_Mut(key) == 1

ConfidenceWeight(key) ==
    CASE key = "data_processing" -> 3
      [] key = "decision_making" -> 4
      [] key = "communication" -> 3

\* ------------------------------------------------------------ exceptions

\* app/core/exceptions.py: every class below derives from AgentException.
AgentExceptionTypes ==
    { "AgentException", "DataProcessingException", "DecisionMakingException",
      "CommunicationException", "LLMException" }

IsAgentException(type) == type \in AgentExceptionTypes

\* An exception is [type, msg]; msg is str(e) as the sequence of its parts,
\* which the code joins with ": ".
Exception(type, msg) == [type |-> type, msg |-> msg]

\* LLMService.ainvoke: any failure of the model call leaves as LLMException.
LLMFailure == Exception("LLMException", <<"LLM invocation failed", "gateway">>)

\* ----------------------------------------------------------------- state

VARIABLES
    pc,                \* where the request is: a node about to run, an awaited call, ...
    query,             \* state["query"]
    task_type,         \* state["task_type"]
    processed_data,    \* state["processed_data"]
    decisions,         \* state["decisions"]
    final_output,      \* state["final_output"]
    agent_path,        \* state["agent_path"]
    confidence_scores, \* state["confidence_scores"]
    errors,            \* state["errors"]
    metadata,          \* state["metadata"]
    frame,             \* the local variables of the running process()
    exc,               \* the exception that left the running stage, if any
    response,          \* the HTTP response of the request, once given
    request,           \* the AgentRequest of the request, once it has arrived
    execution_count,   \* BaseAgent._execution_count of each agent
    parked             \* a second request, suspended at an awaited call, if any

state_vars ==
    << query, task_type, processed_data, decisions, final_output, agent_path,
       confidence_scores, errors, metadata >>

\* What belongs to one request: its state, the position and the locals of
\* its coroutine, its request and its response.
request_vars ==
    << pc, query, task_type, processed_data, decisions, final_output, agent_path,
       confidence_scores, errors, metadata, frame, exc, response, request >>

vars ==
    << pc, query, task_type, processed_data, decisions, final_output, agent_path,
       confidence_scores, errors, metadata, frame, exc, response, request,
       execution_count, parked >>

EmptyMetadata ==
    [ routing_decision |-> None, routing_reasoning |-> None,
      final_decision |-> None, communication_style |-> None, insights |-> None ]

EmptyFrame ==
    [ analysis |-> None, numerical_analysis |-> FALSE, text_analysis |-> FALSE,
      n_options |-> 0, evaluated_options |-> <<>>, best_option |-> 0,
      best_score |-> 0, decision |-> None, style |-> None, formatted_output |-> None ]

NoScores == [k \in ScoreKeys |-> None]

\* The inputs of a run.  With a second request in the server each request
\* draws from the smaller sets, which still lead through every stage and
\* every call.
Concurrent == parked # None

RequestQueries ==
    IF Concurrent THEN {<<"summarize", "the", "decision", "for", "7", "teams">>}
    ELSE Queries

RequestTaskTypes == IF Concurrent THEN {GENERAL} ELSE TaskType

RequestRoutings == IF Concurrent THEN {None} ELSE {None, Some(CallerRouting)}

ClassifyAnswersDrawn == IF Concurrent THEN {"data_processing"} ELSE ClassifyAnswers

\* After construction: the graph is built, the agents have run nothing, and
\* no request has arrived.
Init ==
    /\ pc = "idle"
    /\ query = <<>>
    /\ task_type = GENERAL
    /\ processed_data = None
    /\ decisions = None
    /\ final_output = None
    /\ agent_path = <<>>
    /\ confidence_scores = NoScores
    /\ errors = <<>>
    /\ metadata = EmptyMetadata
    /\ frame = EmptyFrame
    /\ exc = None
    /\ response = None
    /\ request = None
    /\ execution_count = [a \in AgentNames |-> 0]
    /\ parked = None

\* process_query up to "await agent_graph.ainvoke(state)": the initial state
\* of the request; START -> orchestrator.
process_query ==
    /\ pc = "idle"
    /\ \E q \in RequestQueries, t \in RequestTaskTypes, rd \in RequestRoutings :
        /\ request' = Some([query |-> q, task_type |-> t, routing_decision |-> rd])
        /\ query' = q
        /\ task_type' = t
        /\ metadata' = [EmptyMetadata EXCEPT !.routing_decision = rd]
    /\ processed_data' = None
    /\ decisions' = None
    /\ final_output' = None
    /\ agent_path' = <<>>
    /\ confidence_scores' = NoScores
    /\ errors' = <<>>
    /\ pc' = "orchestrator"
    /\ UNCHANGED <<frame, exc, response, execution_count>>
    /\ UNCHANGED parked

\* ----------------------------------------------------- BaseAgent.execute

\* A start that is counted and leaves no entry in the path.
PreProcess_Mut(name) ==
    /\ execution_count' = [execution_count EXCEPT ![name] = @ + 1]
    /\ agent_path' = agent_path

\* pre_process: count the execution and append the agent's name.
PreProcess(name) ==
    /\ execution_count' = [execution_count EXCEPT ![name] = @ + 1]
    /\ agent_path' = Append(agent_path, name)

\* f"{self.name}: {str(e)}"
ErrorEntry_Mut(name, e) == e.msg

ErrorEntry(name, e) == <<name>> \o e.msg

\* The except clause of execute: log the failure in errors and raise
\* AgentException.  It does not touch agent_path: the append of pre_process
\* stays.
ExecuteExcept(name, e) ==
    /\ errors' = Append(errors, ErrorEntry(name, e))
    /\ exc' = Some(Exception("AgentException", <<"Agent", name, "failed">> \o e.msg))
    /\ pc' = "raised"

\* ------------------------------------------------------------ the graph

\* A router that sends a flagged request past the plan.
RouteFromOrchestrator_Mut(md) ==
    IF md.routing_decision # None /\ md.routing_decision[1].parallel_processing
    THEN "communicator"
    ELSE IF md.routing_decision # None /\ md.routing_decision[1].primary_path # <<>>
    THEN md.routing_decision[1].primary_path[1]
    ELSE "data_processor"

\* _route_from_orchestrator: the first agent of the stored primary path,
\* data_processor when there is none.
RouteFromOrchestrator(md) ==
    LET primary_path ==
            IF md.routing_decision = None THEN <<>>
            ELSE md.routing_decision[1].primary_path
    IN  IF primary_path # <<>> THEN primary_path[1] ELSE "data_processor"

RouteFromDataProcessor_Mut(tt, q) ==
    IF Contains(q, "decision") THEN "decision_maker" ELSE "communicator"

\* _route_from_data_processor
RouteFromDataProcessor(tt, q) ==
    IF tt = DECISION_MAKING \/ Contains(q, "decision")
    THEN "decision_maker" ELSE "communicator"

\* graph.add_edge("decision_maker", "communicator")
EdgeFromDecisionMaker == "communicator"

EdgeFromCommunicator_Mut ==
    IF processed_data = None THEN "data_processor" ELSE "graph_end"

\* graph.add_edge("communicator", END)
EdgeFromCommunicator == "graph_end"

\* ---------------------------------------------------------- Orchestrator

\* A stage that keeps a routing_decision the caller supplied.
OrchestratorRoute_Mut(tt) ==
    /\ task_type' = tt
    /\ metadata' =
          IF metadata.routing_decision # None THEN metadata
          ELSE [metadata EXCEPT !.routing_decision = Some(DetermineRouting(query, tt))]
    /\ pc' = "orch_explain"

\* process from the routing on, up to the awaited _explain_routing call.
OrchestratorRoute(tt) ==
    /\ task_type' = tt
    /\ metadata' =
          [metadata EXCEPT !.routing_decision = Some(DetermineRouting(query, tt))]
    /\ pc' = "orch_explain"

\* execute: pre_process, then process up to its first awaited call.  With
\* task_type general the keywords are tried first; without a match the
\* classification call is awaited.
Orchestrator_Start ==
    /\ pc = "orchestrator"
    /\ PreProcess("Orchestrator")
    /\ IF task_type = GENERAL
       THEN IF FirstKeyword(query) # 0
            THEN OrchestratorRoute(Keywords[FirstKeyword(query)].task_type)
            ELSE /\ pc' = "orch_classify"
                 /\ UNCHANGED <<task_type, metadata>>
       ELSE OrchestratorRoute(task_type)
    /\ UNCHANGED <<query, processed_data, decisions, final_output,
                   confidence_scores, errors, frame, exc, response>>
    /\ UNCHANGED <<request, parked>>

\* The classification call of _determine_task_type returns or raises.
Orchestrator_Classify ==
    /\ pc = "orch_classify"
    /\ \/ /\ \E answer \in ClassifyAnswersDrawn : OrchestratorRoute(ParseTaskType(answer))
          /\ UNCHANGED <<errors, exc, agent_path>>
       \/ /\ ExecuteExcept("Orchestrator", LLMFailure)
          /\ UNCHANGED <<task_type, metadata, agent_path>>
    /\ UNCHANGED <<query, processed_data, decisions, final_output,
                   confidence_scores, frame, response, execution_count>>
    /\ UNCHANGED <<request, parked>>

\* The _explain_routing call returns or raises; on return the node ends and
\* the conditional edge picks the next node.
Orchestrator_Explain ==
    /\ pc = "orch_explain"
    /\ \/ /\ metadata' = [metadata EXCEPT !.routing_reasoning = Some("reasoning")]
          /\ pc' = RouteFromOrchestrator(metadata')
          /\ UNCHANGED <<errors, exc, agent_path>>
       \/ /\ ExecuteExcept("Orchestrator", LLMFailure)
          /\ UNCHANGED <<metadata, agent_path>>
    /\ UNCHANGED <<query, task_type, processed_data, decisions, final_output,
                   confidence_scores, frame, response, execution_count>>
    /\ UNCHANGED <<request, parked>>

\* --------------------------------------------------------- DataProcessor

\* _contains_numerical_data: re.search(r'\d+', text)
ContainsNumericalData(q) == \E i \in 1..Len(q) : HasDigit(q[i])

\* _contains_text_data: len(text.split()) > 5
ContainsTextData(q) == Len(q) > TextWordLimit

\* The except clause of DataProcessorAgent.process
DataProcessingException(e) ==
    Exception("DataProcessingException", <<"Data processing failed">> \o e.msg)

\* state["confidence_scores"]["data_processing"] = 0.85
DataProcessorConfidence(cs) ==
    [cs EXCEPT !["data_processing"] = Some(DataProcessingConfidence)]

\* The end of process: the state is written, the node ends and the
\* conditional edge picks the next node.
DataProcessor_Finish(f) ==
    /\ processed_data' =
          Some([ analysis |-> f.analysis[1],
                 numerical_analysis |-> f.numerical_analysis,
                 text_analysis |-> f.text_analysis ])
    /\ confidence_scores' = DataProcessorConfidence(confidence_scores)
    /\ frame' = EmptyFrame
    /\ pc' = RouteFromDataProcessor(task_type, query)
    /\ UNCHANGED <<errors, exc, agent_path>>

\* process after the calls awaited so far: the next call to await, or the end.
DataProcessor_Continue(f, done) ==
    IF "numerical" \notin done /\ ContainsNumericalData(query)
    THEN /\ pc' = "dp_numerical"
         /\ frame' = f
         /\ UNCHANGED <<processed_data, confidence_scores, errors, exc, agent_path>>
    ELSE IF "text" \notin done /\ ContainsTextData(query)
    THEN /\ pc' = "dp_text"
         /\ frame' = f
         /\ UNCHANGED <<processed_data, confidence_scores, errors, exc, agent_path>>
    ELSE DataProcessor_Finish(f)

DataProcessor_Fail ==
    /\ ExecuteExcept("DataProcessor", DataProcessingException(LLMFailure))
    /\ UNCHANGED <<processed_data, confidence_scores, frame, agent_path>>

DataProcessor_Start ==
    /\ pc = "data_processor"
    /\ PreProcess("DataProcessor")
    /\ pc' = "dp_analysis"
    /\ frame' = EmptyFrame
    /\ UNCHANGED <<query, task_type, processed_data, decisions, final_output,
                   confidence_scores, errors, metadata, exc, response>>
    /\ UNCHANGED <<request, parked>>

\* The analysis call returns JSON, returns other text (the fallback of
\* _extract_data_from_text), or raises.
DataProcessor_Analysis ==
    /\ pc = "dp_analysis"
    /\ \/ \E a \in {"json", "fallback"} :
             DataProcessor_Continue([frame EXCEPT !.analysis = Some(a)], {})
       \/ DataProcessor_Fail
    /\ UNCHANGED <<query, task_type, decisions, final_output, metadata,
                   response, execution_count>>
    /\ UNCHANGED <<request, parked>>

\* The _process_numerical_data call returns or raises.
DataProcessor_Numerical ==
    /\ pc = "dp_numerical"
    /\ \/ DataProcessor_Continue([frame EXCEPT !.numerical_analysis = TRUE],
                                 {"numerical"})
       \/ DataProcessor_Fail
    /\ UNCHANGED <<query, task_type, decisions, final_output, metadata,
                   response, execution_count>>
    /\ UNCHANGED <<request, parked>>

\* The _process_text_data call returns or raises.
DataProcessor_Text ==
    /\ pc = "dp_text"
    /\ \/ DataProcessor_Continue([frame EXCEPT !.text_analysis = TRUE],
                                 {"numerical", "text"})
       \/ DataProcessor_Fail
    /\ UNCHANGED <<query, task_type, decisions, final_output, metadata,
                   response, execution_count>>
    /\ UNCHANGED <<request, parked>>

\* --------------------------------------------------------- DecisionMaker

\* decision_criteria["require_validation"]
RequireValidation == TRUE

\* The raw numbers an evaluation text holds after "feasibility", "impact"
\* and "risk" (in ScoreUnit: 8000 is the text "8", 800 the text "0.8");
\* None where the pattern finds no number.  The pattern takes no sign.
RawScores(f, i, r) == [feasibility |-> f, impact |-> i, risk |-> r]

EvalTexts ==
    { RawScores(Some(8000), Some(7000), Some(2000)),
      RawScores(Some(800), Some(700), Some(200)),
      RawScores(None, None, None),
      RawScores(Some(0), Some(0), Some(1000)),
      RawScores(Some(50000), Some(50000), Some(0)),
      RawScores(Some(500), Some(500), Some(0)) }

EvalTextsDrawn ==
    IF Concurrent THEN {RawScores(Some(500), Some(500), Some(0))} ELSE EvalTexts

\* _extract_scores, one axis: a number above 1 is divided by 10, a missing
\* one is 0.5.
ExtractScore(raw) ==
    IF raw = None THEN DefaultScore
    ELSE IF raw[1] > ScoreUnit THEN raw[1] \div 10
    ELSE raw[1]

ExtractScores(text) ==
    [ feasibility |-> ExtractScore(text.feasibility),
      impact |-> ExtractScore(text.impact),
      risk |-> ExtractScore(text.risk) ]

\* feasibility * 0.3 + impact * 0.4 + (1 - risk) * 0.3, in ConfUnit.
WeightedScore(scores) ==
    3 * scores.feasibility + 4 * scores.impact + 3 * (ScoreUnit - scores.risk)

\* The selection loop of _make_decision from evaluation k on: best is the
\* index of best_option (0 for None).
RECURSIVE SelectBest(_, _, _, _)
SelectBest(evaluations, k, best, best_score) ==
    IF k > Len(evaluations) THEN [best_option |-> best, best_score |-> best_score]
    ELSE IF WeightedScore(evaluations[k].scores) > best_score
    THEN SelectBest(evaluations, k + 1, k, WeightedScore(evaluations[k].scores))
    ELSE SelectBest(evaluations, k + 1, best, best_score)

\* What web_search returns: it catches every failure of the search and
\* returns the text "Search error: ..." instead.
SearchResults == {"results", "Search error"}

\* The except clause of DecisionMakerAgent.process
DecisionMakingException(e) ==
    Exception("DecisionMakingException", <<"Decision making failed">> \o e.msg)

\* A failure that keeps the evaluated options in the state.
DecisionMaker_Fail_Mut(e) ==
    /\ ExecuteExcept("DecisionMaker", DecisionMakingException(e))
    /\ decisions' = Some(frame.evaluated_options)
    /\ UNCHANGED <<metadata, confidence_scores, frame, agent_path>>

DecisionMaker_Fail(e) ==
    /\ ExecuteExcept("DecisionMaker", DecisionMakingException(e))
    /\ UNCHANGED <<decisions, metadata, confidence_scores, frame, agent_path>>

\* execute: pre_process, then process up to the awaited _generate_options
\* call; its prompt reads data.get('analysis', ...) of processed_data.
DecisionMaker_Start ==
    /\ pc = "decision_maker"
    /\ PreProcess("DecisionMaker")
    /\ UNCHANGED <<query, task_type, processed_data, decisions, final_output,
                   confidence_scores, metadata, response>>
    /\ IF processed_data = None
       THEN /\ ExecuteExcept("DecisionMaker", DecisionMakingException(
                    Exception("AttributeError", <<"NoneType has no get">>)))
            /\ UNCHANGED frame
       ELSE /\ pc' = "dm_options"
            /\ frame' = EmptyFrame
            /\ UNCHANGED <<errors, exc>>
    /\ UNCHANGED <<request, parked>>

\* The option-generation call returns text of n chunks, of which the first
\* three become options, or raises.
DecisionMaker_Options ==
    /\ pc = "dm_options"
    /\ \/ /\ \E n \in 1..MaxChunks :
               frame' = [frame EXCEPT
                            !.n_options = IF n < MaxOptions THEN n ELSE MaxOptions]
          /\ pc' = "dm_evaluate"
          /\ UNCHANGED <<errors, exc, agent_path>>
       \/ DecisionMaker_Fail(LLMFailure)
    /\ UNCHANGED <<query, task_type, processed_data, decisions, final_output,
                   confidence_scores, metadata, response, execution_count>>
    /\ UNCHANGED <<request, parked>>

\* One evaluation call returns or raises.  After the last one _make_decision
\* selects, and awaits the supplementary search when the best score is
\* below the threshold, the reasoning call otherwise.
DecisionMaker_Evaluate ==
    /\ pc = "dm_evaluate"
    /\ \/ /\ \E text \in EvalTextsDrawn :
               LET evaluated ==
                       Append(frame.evaluated_options,
                              [ option_id |-> Len(frame.evaluated_options) + 1,
                                scores |-> ExtractScores(text),
                                additional_context |-> None ])
                   sel == SelectBest(evaluated, 1, 0, 0)
               IN  IF Len(evaluated) < frame.n_options
                   THEN /\ frame' = [frame EXCEPT !.evaluated_options = evaluated]
                        /\ pc' = "dm_evaluate"
                   ELSE /\ frame' = [frame EXCEPT !.evaluated_options = evaluated,
                                                  !.best_option = sel.best_option,
                                                  !.best_score = sel.best_score]
                        /\ pc' = IF sel.best_score < ConfidenceThreshold
                                 THEN "dm_gather" ELSE "dm_reasoning"
          /\ UNCHANGED <<errors, exc, agent_path>>
       \/ DecisionMaker_Fail(LLMFailure)
    /\ UNCHANGED <<query, task_type, processed_data, decisions, final_output,
                   confidence_scores, metadata, response, execution_count>>
    /\ UNCHANGED <<request, parked>>

\* The supplementary search returns; best_option["additional_context"] is
\* assigned, which raises TypeError when best_option is None.
DecisionMaker_Gather ==
    /\ pc = "dm_gather"
    /\ \E result \in SearchResults :
          IF frame.best_option = 0
          THEN DecisionMaker_Fail(Exception("TypeError", <<"NoneType item assignment">>))
          ELSE /\ frame' = [frame EXCEPT
                    !.evaluated_options[frame.best_option].additional_context =
                        Some(result)]
               /\ pc' = "dm_reasoning"
               /\ UNCHANGED <<errors, exc, agent_path>>
    /\ UNCHANGED <<query, task_type, processed_data, decisions, final_output,
                   confidence_scores, metadata, response, execution_count>>
    /\ UNCHANGED <<request, parked>>

\* The end of process: decisions, final_decision and the confidence are
\* written, the node ends, and the edge to the communicator is taken.
DecisionMaker_Finish(decision) ==
    /\ decisions' = Some(frame.evaluated_options)
    /\ metadata' = [metadata EXCEPT !.final_decision = Some(decision)]
    /\ confidence_scores' =
          [confidence_scores EXCEPT !["decision_making"] = Some(decision.confidence)]
    /\ frame' = EmptyFrame
    /\ pc' = EdgeFromDecisionMaker
    /\ UNCHANGED <<errors, exc, agent_path>>

\* The reasoning call returns or raises; with it the decision record is
\* built, and _validate_decision awaits its search.
DecisionMaker_Reasoning ==
    /\ pc = "dm_reasoning"
    /\ \/ LET decision ==
                  [ selected_option |-> frame.best_option,
                    confidence |-> frame.best_score,
                    reasoning |-> "reasoning",
                    alternatives_considered |-> Len(frame.evaluated_options),
                    validation |-> None ]
          IN  IF RequireValidation
              THEN /\ frame' = [frame EXCEPT !.decision = Some(decision)]
                   /\ pc' = "dm_validate_search"
                   /\ UNCHANGED <<decisions, metadata, confidence_scores,
                                  errors, exc, agent_path>>
              ELSE DecisionMaker_Finish(decision)
       \/ DecisionMaker_Fail(LLMFailure)
    /\ UNCHANGED <<query, task_type, processed_data, final_output,
                   response, execution_count>>
    /\ UNCHANGED <<request, parked>>

\* The validation search returns; the validation call is awaited.
DecisionMaker_ValidateSearch ==
    /\ pc = "dm_validate_search"
    /\ \E result \in SearchResults : pc' = "dm_validate"
    /\ UNCHANGED <<query, task_type, processed_data, decisions, final_output,
                   agent_path, confidence_scores, errors, metadata, frame, exc,
                   response, execution_count>>
    /\ UNCHANGED <<request, parked>>

\* The validation call returns or raises.
DecisionMaker_Validate ==
    /\ pc = "dm_validate"
    /\ \/ DecisionMaker_Finish(
              [frame.decision[1] EXCEPT !.validation = Some("validation")])
       \/ DecisionMaker_Fail(LLMFailure)
    /\ UNCHANGED <<query, task_type, processed_data, final_output,
                   response, execution_count>>
    /\ UNCHANGED <<request, parked>>

\* ---------------------------------------------------------- Communicator

\* The answers of the style call; strip().lower() is StripLower.
StyleAnswers == {"technical", " Executive\n", "formal"}

\* style if style in [...] else "detailed"
CoerceStyle(answer) ==
    IF StripLower(answer) \in {"technical", "executive", "casual", "detailed"}
    THEN StripLower(answer) ELSE "detailed"

\* _calculate_overall_confidence as the fraction num/den of ConfUnit:
\* weighted_sum / total_weight over the keys present, 0.5 without any.
CalculateOverallConfidence(cs) ==
    LET present == {k \in DOMAIN cs : cs[k] # None}
        part(k) == IF k \in present THEN cs[k][1] * ConfidenceWeight(k) ELSE 0
        weight(k) == IF k \in present THEN ConfidenceWeight(k) ELSE 0
        weighted_sum == part("data_processing") + part("decision_making")
                          + part("communication")
        total_weight == weight("data_processing") + weight("decision_making")
                          + weight("communication")
    IN  IF present = {} THEN [num |-> DefaultConfidence, den |-> 1]
        ELSE IF total_weight > 0 THEN [num |-> weighted_sum, den |-> total_weight]
        ELSE [num |-> DefaultConfidence, den |-> 1]

\* A document whose confidence already counts the Communicator's own score.
FormatOutput_Mut ==
    [ confidence |->
          CalculateOverallConfidence(
              [confidence_scores EXCEPT !["communication"] = Some(CommunicationConfidence)]),
      data_points |-> processed_data # None,
      decision_summary |-> metadata.final_decision # None,
      processing_path |-> agent_path ]

\* _format_output: the parts of the document that depend on the state.
FormatOutput ==
    [ confidence |-> CalculateOverallConfidence(confidence_scores),
      data_points |-> processed_data # None,
      decision_summary |-> metadata.final_decision # None,
      processing_path |-> agent_path ]

\* The except clause of CommunicatorAgent.process
CommunicationException(e) ==
    Exception("CommunicationException",
              <<"Communication formatting failed">> \o e.msg)

Communicator_Fail ==
    /\ ExecuteExcept("Communicator", CommunicationException(LLMFailure))
    /\ UNCHANGED <<final_output, metadata, confidence_scores, frame, agent_path>>

CommunicatorConfidence_Mut(cs) ==
    [cs EXCEPT !["communication"] = Some(CommunicationConfidence),
               !["data_processing"] = Some(CommunicationConfidence)]

\* state["confidence_scores"]["communication"] = 0.9
CommunicatorConfidence(cs) ==
    [cs EXCEPT !["communication"] = Some(CommunicationConfidence)]

Communicator_Start ==
    /\ pc = "communicator"
    /\ PreProcess("Communicator")
    /\ pc' = "cm_style"
    /\ frame' = EmptyFrame
    /\ UNCHANGED <<query, task_type, processed_data, decisions, final_output,
                   confidence_scores, errors, metadata, exc, response>>
    /\ UNCHANGED <<request, parked>>

\* The style call returns or raises; the message call is awaited.
Communicator_Style ==
    /\ pc = "cm_style"
    /\ \/ /\ \E answer \in StyleAnswers :
               frame' = [frame EXCEPT !.style = Some(CoerceStyle(answer))]
          /\ pc' = "cm_message"
          /\ UNCHANGED <<final_output, metadata, confidence_scores, errors, exc,
                         agent_path>>
       \/ Communicator_Fail
    /\ UNCHANGED <<query, task_type, processed_data, decisions, response,
                   execution_count>>
    /\ UNCHANGED <<request, parked>>

\* The message call returns or raises; _format_output builds the document
\* and the insights call is awaited.
Communicator_Message ==
    /\ pc = "cm_message"
    /\ \/ /\ frame' = [frame EXCEPT !.formatted_output = Some(FormatOutput)]
          /\ pc' = "cm_insights"
          /\ UNCHANGED <<final_output, metadata, confidence_scores, errors, exc,
                         agent_path>>
       \/ Communicator_Fail
    /\ UNCHANGED <<query, task_type, processed_data, decisions, response,
                   execution_count>>
    /\ UNCHANGED <<request, parked>>

\* The bullet lines an insights answer may hold.
InsightLines == {0, 3, 7}

\* The insights call returns or raises; on return the state is written, the
\* node ends and the graph reaches END.
Communicator_Insights ==
    /\ pc = "cm_insights"
    /\ \/ /\ \E lines \in InsightLines :
               metadata' = [metadata EXCEPT
                   !.communication_style = frame.style,
                   !.insights = Some(IF lines < MaxInsights THEN lines ELSE MaxInsights)]
          /\ final_output' = frame.formatted_output
          /\ confidence_scores' = CommunicatorConfidence(confidence_scores)
          /\ frame' = EmptyFrame
          /\ pc' = EdgeFromCommunicator
          /\ UNCHANGED <<errors, exc, agent_path>>
       \/ Communicator_Fail
    /\ UNCHANGED <<query, task_type, processed_data, decisions, response,
                   execution_count>>
    /\ UNCHANGED <<request, parked>>

\* ------------------------------------------------- endpoint and middleware

\* The weighted combination in the place of the mean.
ResponseConfidence_Mut(cs) == CalculateOverallConfidence(cs)

\* sum(values) / len(values) if confidence_scores else 0.5, as the fraction
\* num/den of ConfUnit.
ResponseConfidence(cs) ==
    LET present == {k \in ScoreKeys : cs[k] # None}
        val(k) == IF k \in present THEN cs[k][1] ELSE 0
    IN  IF present = {} THEN [num |-> DefaultConfidence, den |-> 1]
        ELSE [ num |-> val("data_processing") + val("decision_making")
                         + val("communication"),
               den |-> Cardinality(present) ]

\* AgentResponse.confidence_score: Field(..., ge=0.0, le=1.0)
ValidConfidence(c) == 0 <= c.num /\ c.num <= ConfUnit * c.den

Response(status, error_type, detail, confidence) ==
    [ status |-> status, error_type |-> error_type, detail |-> detail,
      result |-> final_output, task_type |-> task_type, agent_path |-> agent_path,
      confidence_score |-> confidence ]

ErrorResponse(status, error_type, detail) ==
    [ status |-> status, error_type |-> error_type, detail |-> detail,
      result |-> None, task_type |-> task_type, agent_path |-> <<>>,
      confidence_score |-> [num |-> 0, den |-> 1] ]

EndpointExcept_Mut(e) ==
    [ kind |-> "response",
      response |-> Response(200, "", <<>>, ResponseConfidence(confidence_scores)) ]

\* The except clause of process_query: every exception becomes
\* HTTPException(status_code=500, detail=str(e)), which the framework answers
\* with that status before the middleware sees the outcome.
EndpointExcept(e) ==
    [ kind |-> "response",
      response |-> ErrorResponse(500, "HTTPException", e.msg) ]

\* error_handler_middleware around call_next: a response passes; an
\* AgentException is answered with 400, any other exception with 500.
ErrorHandlerMiddleware(outcome) ==
    IF outcome.kind = "response" THEN outcome.response
    ELSE IF IsAgentException(outcome.exception.type)
    THEN ErrorResponse(400, outcome.exception.type, outcome.exception.msg)
    ELSE ErrorResponse(500, "UnexpectedError", <<"Internal server error">>)

\* The exception of a stage leaves ainvoke and reaches the except clause of
\* process_query.
process_query_except ==
    /\ pc = "raised"
    /\ response' = Some(ErrorHandlerMiddleware(EndpointExcept(exc[1])))
    /\ pc' = "done"
    /\ UNCHANGED <<state_vars, frame, exc, execution_count>>
    /\ UNCHANGED <<request, parked>>

\* ainvoke returns the final state: the response is built; when its
\* validation raises, the except clause answers instead.
process_query_return ==
    /\ pc = "graph_end"
    /\ LET confidence == ResponseConfidence(confidence_scores)
           invalid == Exception("ValidationError", <<"confidence_score out of range">>)
       IN  IF ValidConfidence(confidence)
           THEN /\ response' = Some(ErrorHandlerMiddleware(
                        [ kind |-> "response",
                          response |-> Response(200, "", <<>>, confidence) ]))
                /\ exc' = exc
           ELSE /\ response' = Some(ErrorHandlerMiddleware(EndpointExcept(invalid)))
                /\ exc' = Some(invalid)
    /\ pc' = "done"
    /\ UNCHANGED <<state_vars, frame, execution_count>>
    /\ UNCHANGED <<request, parked>>

\* ------------------------------------------------------------------ spec

Next ==
    \/ process_query
    \/ Orchestrator_Start
    \/ Orchestrator_Classify
    \/ Orchestrator_Explain
    \/ DataProcessor_Start
    \/ DataProcessor_Analysis
    \/ DataProcessor_Numerical
    \/ DataProcessor_Text
    \/ DecisionMaker_Start
    \/ DecisionMaker_Options
    \/ DecisionMaker_Evaluate
    \/ DecisionMaker_Gather
    \/ DecisionMaker_Reasoning
    \/ DecisionMaker_ValidateSearch
    \/ DecisionMaker_Validate
    \/ Communicator_Start
    \/ Communicator_Style
    \/ Communicator_Message
    \/ Communicator_Insights
    \/ process_query_except
    \/ process_query_return

Spec == Init /\ [][Next]_vars

\* Every awaited model or search call returns or raises, and the event loop
\* runs the request on: a step that can be taken is taken.
FairSpec == Spec /\ WF_vars(Next)

\* The request whose coroutine is running, as one value.
ActiveRequest ==
    [ pc |-> pc, query |-> query, task_type |-> task_type,
      processed_data |-> processed_data, decisions |-> decisions,
      final_output |-> final_output, agent_path |-> agent_path,
      confidence_scores |-> confidence_scores, errors |-> errors,
      metadata |-> metadata, frame |-> frame, exc |-> exc,
      response |-> response, request |-> request ]

\* A coroutine is suspended while it awaits a model or search call, and does
\* not run before its request arrives or after its response is sent.
Suspended(p) ==
    p \in { "idle", "orch_classify", "orch_explain", "dp_analysis",
            "dp_numerical", "dp_text", "dm_options", "dm_evaluate", "dm_gather",
            "dm_reasoning", "dm_validate_search", "dm_validate", "cm_style",
            "cm_message", "cm_insights", "done" }

\* The event loop passes from the running request, suspended at an awaited
\* call, to the other one.  Each request keeps its own AgentState, locals,
\* request and response; the agents of agent_graph, and with them the
\* execution counters, are the same objects for both.
Switch ==
    /\ parked # None
    /\ Suspended(pc)
    /\ parked' = Some(ActiveRequest)
    /\ pc' = parked[1].pc
    /\ query' = parked[1].query
    /\ task_type' = parked[1].task_type
    /\ processed_data' = parked[1].processed_data
    /\ decisions' = parked[1].decisions
    /\ final_output' = parked[1].final_output
    /\ agent_path' = parked[1].agent_path
    /\ confidence_scores' = parked[1].confidence_scores
    /\ errors' = parked[1].errors
    /\ metadata' = parked[1].metadata
    /\ frame' = parked[1].frame
    /\ exc' = parked[1].exc
    /\ response' = parked[1].response
    /\ request' = parked[1].request
    /\ UNCHANGED execution_count

\* Two requests are served by the one agent_graph built at import.
ConcInit ==
    /\ pc = "idle"
    /\ query = <<>>
    /\ task_type = GENERAL
    /\ processed_data = None
    /\ decisions = None
    /\ final_output = None
    /\ agent_path = <<>>
    /\ confidence_scores = NoScores
    /\ errors = <<>>
    /\ metadata = EmptyMetadata
    /\ frame = EmptyFrame
    /\ exc = None
    /\ response = None
    /\ request = None
    /\ execution_count = [a \in AgentNames |-> 0]
    /\ parked = Some(ActiveRequest)

ConcNext == Next \/ Switch

ConcSpec == ConcInit /\ [][ConcNext]_vars

\* The mappings _calculate_overall_confidence is applied to: any of the three
\* weighted keys and a key that carries no weight, each absent or present.
ScoreValues == {0, 7000, 8500, 9000, 10000}

ScoreMaps ==
    [ScoreKeys \cup {"custom"} -> {None} \cup {Some(v) : v \in ScoreValues}]

\* The Communicator is about to build its document from a state whose
\* confidence_scores is any of these mappings.
ConfidenceInit ==
    /\ pc = "cm_message"
    /\ query = <<"hello">>
    /\ task_type = COMMUNICATION
    /\ processed_data = None
    /\ decisions = None
    /\ final_output = None
    /\ agent_path = <<"Communicator">>
    /\ confidence_scores \in ScoreMaps
    /\ errors = <<>>
    /\ metadata = EmptyMetadata
    /\ frame = [EmptyFrame EXCEPT !.style = Some("technical")]
    /\ exc = None
    /\ response = None
    /\ request = None
    /\ execution_count = [a \in AgentNames |-> IF a = "Communicator" THEN 1 ELSE 0]
    /\ parked = None

ConfidenceNext == Communicator_Message

ConfidenceSpec == ConfidenceInit /\ [][ConfidenceNext]_vars

\* ---------------------------------------------------------------- claims

\* The agent whose execute is running at position p ("" when none is).
RunningAgent(p) ==
    CASE p \in {"orchestrator", "orch_classify", "orch_explain"} -> "Orchestrator"
      [] p \in {"data_processor", "dp_analysis", "dp_numerical", "dp_text"} ->
            "DataProcessor"
      [] p \in {"decision_maker", "dm_options", "dm_evaluate", "dm_gather",
                "dm_reasoning", "dm_validate_search", "dm_validate"} ->
            "DecisionMaker"
      [] p \in {"communicator", "cm_style", "cm_message", "cm_insights"} ->
            "Communicator"
      [] OTHER -> ""

Last(seq) == seq[Len(seq)]

\* The graph ran to END: every stage that started returned.
GraphCompleted == pc \in {"graph_end", "done"} /\ errors = <<>>

FullPath == <<"Orchestrator", "DataProcessor", "DecisionMaker", "Communicator">>

\* C1: in every run that reaches END, the stages executed after the
\* Orchestrator are exactly the nodes of the stored primary path, in order.
C1_PathIsPrimaryPath ==
    GraphCompleted =>
        LET plan == metadata.routing_decision[1].primary_path
        IN  /\ Len(agent_path) = Len(plan) + 1
            /\ \A i \in 1..Len(plan) : NodeOfAgent(agent_path[i + 1]) = plan[i]

\* C2: whenever the Orchestrator stores a routing plan, its primary path is
\* the table's entry for the task type the state then holds:
\* data_processing: data_processor, communicator; decision_making:
\* data_processor, decision_maker, communicator; communication:
\* communicator; anything else: data_processor, decision_maker, communicator.
C2_RoutingTable ==
    [][ (pc # "idle" /\ metadata'.routing_decision # metadata.routing_decision) =>
          LET plan == metadata'.routing_decision[1].primary_path
          IN  /\ task_type' = "data_processing" =>
                    plan = <<"data_processor", "communicator">>
              /\ task_type' = "decision_making" =>
                    plan = <<"data_processor", "decision_maker", "communicator">>
              /\ task_type' = "communication" => plan = <<"communicator">>
              /\ task_type' \notin {"data_processing", "decision_making", "communication"} =>
                    plan = <<"data_processor", "decision_maker", "communicator">>
      ]_vars

\* The Orchestrator has stored the plan of a task type that the
\* classification left general.
C2_Witness ==
    /\ pc = "orch_explain"
    /\ task_type = GENERAL
    /\ metadata.routing_decision[1].primary_path =
          <<"data_processor", "decision_maker", "communicator">>

\* C3: after a run to END with task type decision_making, agent_path is
\* Orchestrator, DataProcessor, DecisionMaker, Communicator.
C3_DecisionMakingPath ==
    (GraphCompleted /\ task_type = DECISION_MAKING) => agent_path = FullPath

C3_Witness ==
    /\ pc = "done"
    /\ response # None
    /\ response[1].status = 200
    /\ task_type = DECISION_MAKING
    /\ ~Contains(query, "decision")
    /\ agent_path = FullPath

\* The edges of the graph, as pairs of agents.
GraphEdges ==
    { <<"Orchestrator", "DataProcessor">>, <<"Orchestrator", "DecisionMaker">>,
      <<"Orchestrator", "Communicator">>, <<"DataProcessor", "DecisionMaker">>,
      <<"DataProcessor", "Communicator">>, <<"DecisionMaker", "Communicator">> }

PathFollowsGraph ==
    /\ pc \notin {"idle", "orchestrator"} => agent_path # <<>>
    /\ agent_path # <<>> => agent_path[1] = "Orchestrator"
    /\ \A i \in 1..(Len(agent_path) - 1) :
          <<agent_path[i], agent_path[i + 1]>> \in GraphEdges
    /\ \A i, j \in 1..Len(agent_path) : agent_path[i] = agent_path[j] => i = j
    /\ \A a \in AgentNames : execution_count[a] <= 1

\* C4: the stages of a request run along the edges of the graph, the
\* Orchestrator first, nothing after the Communicator, each stage at most
\* once; and a request that has arrived is answered.
C4_TransitionGraph ==
    /\ []PathFollowsGraph
    /\ (pc # "idle") ~> (pc = "done")

C4_Witness ==
    /\ pc = "done"
    /\ agent_path = FullPath
    /\ \A a \in AgentNames : execution_count[a] = 1

\* C5: a step in which a stage's process raises leaves the stage's name
\* last in agent_path, appends exactly the entry "<stage name>: <cause>" to
\* errors, and changes no earlier entry of either.
C5_FailureRecorded ==
    [][ (pc # "raised" /\ pc' = "raised") =>
          LET name == RunningAgent(pc)
              raised == exc'[1].msg
              cause == SubSeq(raised, 4, Len(raised))
          IN  /\ agent_path' \in {agent_path, Append(agent_path, name)}
              /\ Last(agent_path') = name
              /\ Len(errors') = Len(errors) + 1
              /\ SubSeq(errors', 1, Len(errors)) = errors
              /\ Last(errors') = <<name>> \o cause
              /\ Len(cause) > 0
      ]_vars

C5_Witness ==
    /\ pc = "raised"
    /\ agent_path = <<"Orchestrator", "DataProcessor", "DecisionMaker">>
    /\ errors = << <<"DecisionMaker", "Decision making failed",
                     "LLM invocation failed", "gateway">> >>

\* The error category of each stage.
OwnCategory(name) ==
    CASE name = "DataProcessor" -> "DataProcessingException"
      [] name = "DecisionMaker" -> "DecisionMakingException"
      [] name = "Communicator" -> "CommunicationException"
      [] OTHER -> "AgentException"

\* C6: the exception that leaves a failed stage's execute, and with which
\* the request fails, is of the stage's own category.
C6_OwnCategory ==
    (exc # None /\ errors # <<>>) =>
        exc[1].type = OwnCategory(Last(agent_path))

\* C7: once a stage has failed, no stage of the request executes again and
\* the only step left answers the request with an error.
C7_FailureAborts ==
    [][ errors # <<>> =>
          /\ agent_path' = agent_path
          /\ execution_count' = execution_count
          /\ errors' = errors
          /\ pc' = "done"
          /\ response' # None
          /\ response'[1].status >= 400
      ]_vars

C7_Witness ==
    /\ pc = "done"
    /\ agent_path = <<"Orchestrator", "DataProcessor">>
    /\ processed_data = None
    /\ Len(errors) = 1
    /\ response[1].status = 500

\* C8: a request that fails with an exception of the AgentException family
\* is answered with status 400, one that fails with any other with 500.
C8_StatusByCategory ==
    (response # None /\ exc # None) =>
        response[1].status = IF IsAgentException(exc[1].type) THEN 400 ELSE 500

\* C9: every value of confidence_scores is in [0,1].
C9_ConfidenceInUnitInterval ==
    \A k \in ScoreKeys :
        confidence_scores[k] # None =>
            (0 <= confidence_scores[k][1] /\ confidence_scores[k][1] <= ConfUnit)

\* The key of confidence_scores that belongs to each stage.
OwnKey(name) ==
    CASE name = "DataProcessor" -> "data_processing"
      [] name = "DecisionMaker" -> "decision_making"
      [] name = "Communicator" -> "communication"
      [] OTHER -> ""

\* C10: a step of a stage changes no key of confidence_scores but the
\* stage's own; a step of the Orchestrator changes none.
C10_OwnKeyOnly ==
    [][ \A k \in ScoreKeys :
          confidence_scores'[k] # confidence_scores[k] => k = OwnKey(RunningAgent(pc))
      ]_vars

C10_Witness ==
    /\ pc = "graph_end"
    /\ confidence_scores["data_processing"] = Some(DataProcessingConfidence)
    /\ confidence_scores["decision_making"] # None
    /\ confidence_scores["communication"] = Some(CommunicationConfidence)

\* The request was answered with a success response.
SuccessResponse == pc = "done" /\ response # None /\ response[1].status = 200

RecordedKeys == {k \in ScoreKeys : confidence_scores[k] # None}

RecordedValue(k) == IF k \in RecordedKeys THEN confidence_scores[k][1] ELSE 0

\* C11: the confidence_score of a success response is the unweighted mean of
\* the values recorded in confidence_scores of the final state (their sum
\* divided by their number), 0.5 when none is recorded, and it lies in [0,1].
C11_UnweightedMean ==
    SuccessResponse =>
        LET c == response[1].confidence_score
            total == RecordedValue("data_processing")
                       + RecordedValue("decision_making")
                       + RecordedValue("communication")
        IN  /\ c.den > 0
            /\ IF RecordedKeys = {}
               THEN c.num * 2 = ConfUnit * c.den
               ELSE c.num * Cardinality(RecordedKeys) = total * c.den
            /\ 0 <= c.num
            /\ c.num <= ConfUnit * c.den

\* A success response whose three scores are all recorded and are not all
\* equal, so that the mean differs from each of them.
C11_Witness ==
    /\ SuccessResponse
    /\ RecordedKeys = ScoreKeys
    /\ confidence_scores["decision_making"] # confidence_scores["data_processing"]
    /\ confidence_scores["decision_making"] # confidence_scores["communication"]

\* The document of the Communicator has been built from confidence_scores.
ConfidenceCalculated == pc = "cm_insights" /\ frame.formatted_output # None

WeightedKeys == {k \in ScoreKeys : confidence_scores[k] # None}

WeightedPart(k, weight) ==
    IF k \in WeightedKeys THEN confidence_scores[k][1] * weight ELSE 0

WeightPresent(k, weight) == IF k \in WeightedKeys THEN weight ELSE 0

\* C12: the overall confidence is the sum of score*weight over those of
\* data_processing (0.3), decision_making (0.4) and communication (0.3) that
\* are present, divided by the sum of the weights present; it is 0.5 when none
\* of the three is present; for 0.85, 0.7 and 0.9 it is 0.805.
C12_WeightedConfidence ==
    ConfidenceCalculated =>
        LET c == frame.formatted_output[1].confidence
            weighted_sum == WeightedPart("data_processing", 3)
                              + WeightedPart("decision_making", 4)
                              + WeightedPart("communication", 3)
            total_weight == WeightPresent("data_processing", 3)
                              + WeightPresent("decision_making", 4)
                              + WeightPresent("communication", 3)
        IN  /\ c.den > 0
            /\ IF WeightedKeys = {}
               THEN c.num * 2 = ConfUnit * c.den
               ELSE c.num * total_weight = weighted_sum * c.den
            /\ ( /\ confidence_scores["data_processing"] = Some(8500)
                 /\ confidence_scores["decision_making"] = Some(7000)
                 /\ confidence_scores["communication"] = Some(9000) )
               => c.num * 1000 = 805 * ConfUnit * c.den

\* The example of the claim has been calculated.
C12_Witness ==
    /\ ConfidenceCalculated
    /\ confidence_scores["data_processing"] = Some(8500)
    /\ confidence_scores["decision_making"] = Some(7000)
    /\ confidence_scores["communication"] = Some(9000)

\* The task type of the keyword of the query that the mapping declares first.
DeclaredFirst(q) ==
    IF Contains(q, "analyze") THEN DATA_PROCESSING
    ELSE IF Contains(q, "decide") THEN DECISION_MAKING
    ELSE IF Contains(q, "calculate") THEN DATA_PROCESSING
    ELSE IF Contains(q, "choose") THEN DECISION_MAKING
    ELSE IF Contains(q, "communicate") THEN COMMUNICATION
    ELSE IF Contains(q, "explain") THEN COMMUNICATION
    ELSE IF Contains(q, "process") THEN DATA_PROCESSING
    ELSE GENERAL

\* C13: when task_type is general and the query contains mapped keywords, the
\* Orchestrator takes the task type of the keyword declared first in the
\* mapping, whatever the keywords' places in the query, and goes on to the
\* explanation without the classification call.
C13_DeclaredOrder ==
    [][ ( /\ pc = "orchestrator"
          /\ task_type = GENERAL
          /\ DeclaredFirst(query) # GENERAL )
        => ( /\ task_type' = DeclaredFirst(query)
             /\ pc' = "orch_explain" ) ]_vars

\* "decide" comes first in the query and "analyze" first in the mapping.
C13_Witness ==
    /\ pc = "orch_explain"
    /\ request # None
    /\ request[1].task_type = GENERAL
    /\ query = <<"decide", "analyze">>
    /\ task_type = DATA_PROCESSING

\* C14: when task_type is general and no keyword matches, the task type after
\* the classification is one of data_processing, decision_making and
\* communication.
C14_ClassifiedType ==
    ( /\ pc = "orch_explain"
      /\ request # None
      /\ request[1].task_type = GENERAL
      /\ DeclaredFirst(query) = GENERAL )
    => task_type \in {DATA_PROCESSING, DECISION_MAKING, COMMUNICATION}

\* The selection loop of _make_decision has run over the evaluated options.
SelectionDone ==
    /\ pc \in {"dm_gather", "dm_reasoning"}
    /\ frame.n_options > 0
    /\ Len(frame.evaluated_options) = frame.n_options

\* 0.3*feasibility + 0.4*impact + 0.3*(1 - risk) of evaluated option i, in
\* ConfUnit.
WeightedOf(i) ==
    LET scores == frame.evaluated_options[i].scores
    IN  3 * scores.feasibility + 4 * scores.impact + 3 * (ScoreUnit - scores.risk)

\* The first-evaluated option among those of highest weighted score.
FirstHighest ==
    CHOOSE i \in 1..Len(frame.evaluated_options) :
        /\ \A j \in 1..Len(frame.evaluated_options) : WeightedOf(i) >= WeightedOf(j)
        /\ \A j \in 1..(i - 1) : WeightedOf(j) < WeightedOf(i)

\* C15: the DecisionMaker selects the option of highest weighted score, and
\* the first-evaluated one among options of equal highest score.
C15_SelectsFirstHighest ==
    SelectionDone => frame.best_option = FirstHighest

\* The positions of DecisionMakerAgent.execute.
InDecisionMaker ==
    pc \in { "decision_maker", "dm_options", "dm_evaluate", "dm_gather",
             "dm_reasoning", "dm_validate_search", "dm_validate" }

\* C16: a step of the DecisionMaker that does not complete the stage, a
\* failure at any of its calls included, leaves decisions,
\* metadata.final_decision and confidence_scores.decision_making as they are;
\* so after a failure they are as they were when the stage started.
C16_NoPartialDecision ==
    [][ (InDecisionMaker /\ pc' # "communicator")
        => ( /\ decisions' = decisions
             /\ metadata'.final_decision = metadata.final_decision
             /\ confidence_scores'["decision_making"]
                    = confidence_scores["decision_making"] ) ]_vars

\* The DecisionMaker failed at its validation call, with the decision record
\* already built, and nothing of it is in the state.
C16_Witness ==
    /\ pc = "raised"
    /\ Last(agent_path) = "DecisionMaker"
    /\ frame.decision # None
    /\ decisions = None
    /\ metadata.final_decision = None
    /\ confidence_scores["decision_making"] = None

\* The supplementary search of the stage failed: web_search returned the text
\* of its except clause, kept as the additional context of the selected option.
SearchFailed(options) ==
    \E i \in 1..Len(options) : options[i].additional_context = Some("Search error")

\* C17: the DecisionMaker does not complete with a decision when one of its
\* search calls failed.
C17_SearchFailureFails ==
    decisions # None => ~SearchFailed(decisions[1])

\* C18: final_output is set only by the step that completes the Communicator,
\* it is absent until then, and once it is set the graph has ended: no stage
\* starts again (agent_path and the execution counters stay as they are).
C18_FinalOutputTerminal ==
    [][ /\ final_output' # final_output
            => ( /\ pc = "cm_insights"
                 /\ final_output = None
                 /\ Last(agent_path) = "Communicator"
                 /\ errors' = <<>> )
        /\ final_output' # None => pc' \in {"graph_end", "done"}
        /\ final_output # None
            => ( /\ final_output' = final_output
                 /\ agent_path' = agent_path
                 /\ execution_count' = execution_count ) ]_vars

\* The request has been answered after the Communicator set final_output.
C18_Witness ==
    /\ pc = "done"
    /\ final_output # None
    /\ Last(agent_path) = "Communicator"

IsPrefix(s, t) == Len(s) <= Len(t) /\ SubSeq(t, 1, Len(s)) = s

\* The positions at which the graph starts the execute of a stage.
StageStarts == pc \in {"orchestrator", "data_processor", "decision_maker", "communicator"}

\* The stage executions started, summed over the four agents.
ExecutionsStarted(count) ==
    count["Orchestrator"] + count["DataProcessor"] + count["DecisionMaker"]
      + count["Communicator"]

\* C19: agent_path and errors only grow at their end; agent_path grows by one
\* entry exactly when a stage execution starts, so its length is the number
\* of stage executions started for the request, a failed one included.
C19_AppendOnly ==
    [][ /\ IsPrefix(agent_path, agent_path')
        /\ IsPrefix(errors, errors')
        /\ Len(agent_path') = Len(agent_path) + (IF StageStarts THEN 1 ELSE 0)
        /\ Len(agent_path') = ExecutionsStarted(execution_count') ]_vars

\* Three stages started, the third failed: three entries, one error.
C19_Witness ==
    /\ pc = "raised"
    /\ Len(agent_path) = 3
    /\ Len(errors) = 1
    /\ ExecutionsStarted(execution_count) = 3

\* How many executions of agent a a path records.
Occurrences(a, path) == Cardinality({i \in 1..Len(path) : path[i] = a})

\* A request has arrived and none of its stages has started.
RequestArrived == pc = "orchestrator" /\ agent_path = <<>>

\* C20 as stated: the stage objects shared by the requests hold no data that
\* changes across requests, so a request that arrives finds them as they
\* were constructed.
C20_NoSharedMutableData ==
    RequestArrived => \A a \in AgentNames : execution_count[a] = 0

\* C20, amended: with two requests interleaved at their awaited calls, a step
\* of one request leaves the state, locals, request and response of the other
\* as they are, and a switch between them changes neither; the only data of
\* the shared stage objects that changes is each stage's execution counter,
\* which counts the executions of both requests.
C20_OwnStateSharedCounter ==
    [][ /\ \/ parked' = parked
           \/ parked' = Some(ActiveRequest) /\ ActiveRequest' = parked[1]
        /\ parked' # None
        /\ \A a \in AgentNames :
               execution_count'[a]
                   = Occurrences(a, agent_path')
                       + Occurrences(a, parked'[1].agent_path) ]_vars

\* One request has been answered after all four stages, the other is
\* suspended inside its DecisionMaker, and the counters hold both.
C20_Witness ==
    /\ parked # None
    /\ parked[1].pc = "done"
    /\ Len(parked[1].agent_path) = 4
    /\ pc = "dm_evaluate"
    /\ execution_count["DecisionMaker"] = 2
    /\ execution_count["Communicator"] = 1

\* The metadata of the other run: the same but for the parallel-processing
\* flag and the attached list of parallel agents.
FlipFlag(md) ==
    IF md.routing_decision = None THEN md
    ELSE [md EXCEPT !.routing_decision =
            Some([ primary_path |-> md.routing_decision[1].primary_path,
                   parallel_processing |-> ~md.routing_decision[1].parallel_processing,
                   parallel_agents |->
                       IF md.routing_decision[1].parallel_agents = None
                       THEN Some(<<"data_processor", "web_searcher">>)
                       ELSE None ])]

StageNodes == {"data_processor", "decision_maker", "communicator", "graph_end"}

\* C21: the parallel-processing flag is inert: the node the graph goes to
\* after a stage is the node it would go to with the flag and the parallel
\* agent list changed, and a step starts at most one stage, which is a node of
\* the graph.
C21_FlagInert ==
    [][ /\ (pc = "orch_explain" /\ pc' \in StageNodes)
            => pc' = RouteFromOrchestrator(FlipFlag(metadata'))
        /\ (pc \in {"dp_analysis", "dp_numerical", "dp_text"} /\ pc' \in StageNodes)
            => pc' = RouteFromDataProcessor(task_type, query)
        /\ pc \in {"dm_reasoning", "dm_validate"} /\ pc' \in StageNodes
            => pc' = "communicator"
        /\ Len(agent_path') <= Len(agent_path) + 1
        /\ \A i \in 1..Len(agent_path') : agent_path'[i] \in AgentNames ]_vars

\* A flagged request, with its list of parallel agents, has been answered
\* after the stages of its plan, one after the other.
C21_Witness ==
    /\ pc = "done"
    /\ metadata.routing_decision # None
    /\ metadata.routing_decision[1].parallel_processing
    /\ metadata.routing_decision[1].parallel_agents
           = Some(<<"data_processor", "web_searcher">>)
    /\ agent_path = <<"Orchestrator", "DataProcessor", "Communicator">>

\* Every score of every evaluated option is in [0,1].
ScoresInUnitInterval ==
    \A i \in 1..Len(frame.evaluated_options) :
        LET scores == frame.evaluated_options[i].scores
        IN  /\ 0 <= scores.feasibility /\ scores.feasibility <= ScoreUnit
            /\ 0 <= scores.impact /\ scores.impact <= ScoreUnit
            /\ 0 <= scores.risk /\ scores.risk <= ScoreUnit

\* C22: once at least one option has been evaluated with scores in [0,1], the
\* selection yields one of the evaluated options, never an absent one.
C22_SelectsAnOption ==
    (SelectionDone /\ ScoresInUnitInterval)
    => frame.best_option \in 1..Len(frame.evaluated_options)

\* The stage that ran last failed.
StageFailed(name) == pc = "raised" /\ agent_path # <<>> /\ Last(agent_path) = name

\* What each stage writes is as it was before the stage started: for the
\* Orchestrator as the request gave it, for the later stages absent.
OrchestratorLeftNothing ==
    /\ task_type = request[1].task_type
    /\ metadata = [EmptyMetadata EXCEPT !.routing_decision = request[1].routing_decision]

LaterStageLeftNothing(name) ==
    CASE name = "DataProcessor" ->
            processed_data = None /\ confidence_scores["data_processing"] = None
      [] name = "DecisionMaker" ->
            /\ decisions = None
            /\ metadata.final_decision = None
            /\ confidence_scores["decision_making"] = None
      [] name = "Communicator" ->
            /\ final_output = None
            /\ metadata.communication_style = None
            /\ metadata.insights = None
            /\ confidence_scores["communication"] = None

\* C23: a stage execution that fails leaves task_type, metadata,
\* processed_data, decisions, confidence_scores and final_output as they were
\* before the stage started.
C23_FailureLeavesState ==
    /\ StageFailed("Orchestrator") => OrchestratorLeftNothing
    /\ \A name \in {"DataProcessor", "DecisionMaker", "Communicator"} :
           StageFailed(name) => LaterStageLeftNothing(name)

\* C24: the graph never goes from the Orchestrator to the DecisionMaker,
\* whatever routing_decision the caller supplied; the DecisionMaker starts
\* only from a DataProcessor that completed, with processed_data present.
C24_DecisionMakerAfterDataProcessor ==
    [][ /\ pc = "orch_explain" => pc' # "decision_maker"
        /\ (pc' = "decision_maker" /\ pc # "decision_maker")
            => ( /\ pc \in {"dp_analysis", "dp_numerical", "dp_text"}
                 /\ Last(agent_path') = "DataProcessor"
                 /\ processed_data' # None
                 /\ errors' = <<>> )
        /\ (pc = "decision_maker" /\ pc' # pc)
            => (processed_data # None /\ pc' = "dm_options") ]_vars

\* The caller asked for the DecisionMaker first; it starts after the
\* DataProcessor all the same.
C24_Witness ==
    /\ pc = "dm_options"
    /\ request[1].routing_decision = Some(CallerRouting)
    /\ agent_path = <<"Orchestrator", "DataProcessor", "DecisionMaker">>
    /\ processed_data # None

\* score * weight of an earlier stage's key, 0 when the key is absent.
EarlierPart(k, weight) ==
    IF confidence_scores[k] = None THEN 0 ELSE confidence_scores[k][1] * weight

EarlierWeight(k, weight) == IF confidence_scores[k] = None THEN 0 ELSE weight

\* C25: the overall confidence in final_output is computed before the
\* Communicator writes its own score: it is the weighted combination of the
\* data_processing and decision_making scores only, 0.5 when neither is
\* recorded (as on the path Orchestrator, Communicator), while the final
\* state holds communication = 0.9.
C25_ConfidenceBeforeOwnScore ==
    final_output # None =>
        LET c == final_output[1].confidence
            weighted_sum == EarlierPart("data_processing", 3)
                              + EarlierPart("decision_making", 4)
            total_weight == EarlierWeight("data_processing", 3)
                              + EarlierWeight("decision_making", 4)
        IN  /\ c.den > 0
            /\ IF total_weight = 0
               THEN c.num * 2 = ConfUnit * c.den
               ELSE c.num * total_weight = weighted_sum * c.den
            /\ confidence_scores["communication"] = Some(9000)
            /\ agent_path = <<"Orchestrator", "Communicator">>
                   => c.num * 2 = ConfUnit * c.den

\* Only the Orchestrator and the Communicator ran: the document shows 0.5
\* and the state holds the Communicator's 0.9.
C25_Witness ==
    /\ pc = "done"
    /\ agent_path = <<"Orchestrator", "Communicator">>
    /\ final_output # None
    /\ final_output[1].confidence = [num |-> 5000, den |-> 1]
    /\ confidence_scores["communication"] = Some(9000)

====
